---------------------------- MODULE Spec2Model ----------------------------
(***************************************************************************)
(* The session registry and the /mcp request dispatcher of the MCP echo    *)
(* server, src/src/index.ts.                                               *)
(*                                                                         *)
(* The state is the module-level registry `transports`, the module-level   *)
(* `sessionCounter`, the handlers suspended at their `await`, how often    *)
(* close() was called on every transport object, and the most recent       *)
(* handler step with the response as it stands after it.                   *)
(* A handler runs atomically from its entry to its `await` and from the    *)
(* settling of the awaited promise to its end (one JavaScript thread).     *)
(*                                                                         *)
(* StreamableHTTPServerTransport.handleRequest is library code: what it    *)
(* does to the response and whether its promise resolves or rejects is a   *)
(* nondeterministic choice (TransportOutcomes).                            *)
(*                                                                         *)
(* JavaScript values that the code tests for truthiness are encoded as     *)
(* strings: "n:0" is the number 0, "s:" the empty string, "s:hi" the       *)
(* string hi, "undefined" and "null" themselves.                           *)
(***************************************************************************)
EXTENDS Integers, Sequences, FiniteSets, TLC

\* ------------------------------------------------------------- bounds
\* How many sessions a run creates (caps sessionCounter).
MaxSessions == 2
\* Date.now() yields a value of 0..MaxClock (sessions created within the
\* same millisecond get the same value).
MaxClock == 0
\* How many handlers may be suspended at an await at the same time.
MaxInFlight == 2

Slots == 1..MaxInFlight
Clock == 0..MaxClock

\* ------------------------------------------------------ JavaScript values
Undefined == "undefined"
Null == "null"

\* ToBoolean(v) is false: the operand of ||, && and ! that counts as false.
Falsy(v) == v \in {"undefined", "null", "false", "n:0", "s:"}

\* a || b
Or(a, b) == IF Falsy(a) THEN b ELSE a

\* --------------------------------------------------------------- headers
\* The value of the mcp-session-id request header: absent, a key that every
\* plain object inherits from Object.prototype ("constructor"), or a string
\* of the form session-<n>-<t>.
NoHeader == [k |-> "none", n |-> 0, t |-> 0]
ProtoKey == [k |-> "proto", n |-> 0, t |-> 0]

\* Mutant of SessionIdString: the counter is left out of the id.
SessionIdStringNoCounter(n, t) == [k |-> "sid", n |-> 0, t |-> t]

\* `session-${n}-${t}`
SessionIdString(n, t) == [k |-> "sid", n |-> n, t |-> t]

IdSpace == {SessionIdString(n, t) : n \in 1..MaxSessions, t \in Clock}
HeaderValues == {NoHeader, ProtoKey} \cup IdSpace

\* The Origin request header: absent, an origin of corsOptions.origin (one
\* of the two listed stands for both), or another origin.
NoOrigin == "undefined"
AllowedOrigins == {"s:http://localhost:5173"}
Origins == {NoOrigin, "s:http://evil.example"} \cup AllowedOrigins

\* ---------------------------------------------------------------- bodies
\* The JSON-RPC body of a POST: id, method, params.name, whether
\* params.arguments is present, and params.arguments.message ("undefined"
\* when there is none).
FallbackText == "s:No message provided"
Body(id, method, name, hasArgs, message) ==
    [id |-> id, method |-> method, name |-> name,
     hasArgs |-> hasArgs, message |-> message]

BodyIds == {"n:0", "n:1", "s:"}
Strings == {"s:", "s:hi"}
Messages == Strings \cup {Undefined}
EchoBodies ==
    {Body(i, "tools/call", "echo", TRUE, m) : i \in BodyIds, m \in Messages}
      \cup {Body(i, "tools/call", "echo", FALSE, Undefined) : i \in BodyIds}
OtherBodies ==
    {Body(i, "initialize", Undefined, FALSE, Undefined) : i \in BodyIds}
      \cup {Body("n:1", "tools/call", "other", TRUE, "s:hi"),
            Body("n:1", "ping", Undefined, FALSE, Undefined)}
Bodies == EchoBodies \cup OtherBodies
NoBody == Body(Undefined, Undefined, Undefined, FALSE, Undefined)

\* A request: its mcp-session-id header and, for POST, its body.
Request(sid, body) == [sid |-> sid, body |-> body]
PostRequests == {Request(sid, b) : sid \in HeaderValues, b \in Bodies}
NoRequest == Request(NoHeader, NoBody)
BodilessRequests == {Request(sid, NoBody) : sid \in HeaderValues}

\* -------------------------------------------------------------- responses
\* What has been done to `res`: the status and body on the wire, how many
\* times a status/body was written (the first write sends the headers, so
\* res.headersSent is writes > 0), every value passed to
\* setHeader("mcp-session-id"), and the two CORS headers.
Payload(kind, id, text, n) == [kind |-> kind, id |-> id, text |-> text, n |-> n]
NoPayload == Payload("none", Undefined, Undefined, 0)
EmptyRes ==
    [status |-> 0, writes |-> 0, sidHdr |-> <<>>,
     acao |-> Undefined, acac |-> FALSE, body |-> NoPayload]

HeadersSent(res) == res.writes > 0

\* res.status(code).json(payload) / res.json(payload) / res.sendStatus(code):
\* the first write goes on the wire; a write after the headers were sent is a
\* second write of the same response (it cannot change what was sent).
Send(res, code, payload) ==
    IF HeadersSent(res)
    THEN [res EXCEPT !.writes = @ + 1]
    ELSE [res EXCEPT !.status = code, !.writes = 1, !.body = payload]

\* The transport answers the request itself, with a status of its choice
\* (written 200 here) and a body of its own.
TransportPayload == Payload("transport", Undefined, Undefined, 0)
TransportWrites(res) == Send(res, 200, TransportPayload)

\* app.use(cors(corsOptions)): the middleware runs before every handler. It
\* echoes the Origin only when it is one of corsOptions.origin, and sets
\* Access-Control-Allow-Credentials whenever credentials is true.
CorsMiddleware(res, org) ==
    [res EXCEPT !.acao = IF org \in AllowedOrigins THEN org ELSE Undefined,
                !.acac = TRUE]

\* res.header("Access-Control-Allow-Origin", req.headers.origin || "*");
\* res.header("Access-Control-Allow-Credentials", "true");
SetCorsHeaders(res, org) ==
    [res EXCEPT !.acao = Or(org, "s:*"), !.acac = TRUE]

\* res.setHeader("mcp-session-id", id)
SetSessionHeader(res, id) == [res EXCEPT !.sidHdr = Append(@, id)]

\* ------------------------------------------------------------------ state
VARIABLES
    transports,      \* the registry: session id -> transport object
    sessionCounter,  \* let sessionCounter = 0
    inflight,        \* the handlers suspended at `await transport.handleRequest`
    closeCalls,      \* per transport object, how often close() was called on it
    exited,          \* process.exit(0) was called
    origin,          \* the Origin header the client of this run sends
    last             \* the most recent handler step and the response after it

vars == <<transports, sessionCounter, inflight, closeCalls, exited, origin, last>>

\* Transport objects are numbered by the order of their construction; the
\* k-th `new StreamableHTTPServerTransport` is object k.
Transports == 1..MaxSessions

\* What a member access on the registry object yields besides a transport:
\* undefined, or a member inherited from Object.prototype.
NoTransport == 0
ProtoMember == -1

\* Mutant of Lookup: the registry is never consulted.
LookupNever(sid) == IF sid = ProtoKey THEN ProtoMember ELSE NoTransport

\* transports[sessionId]: `transports` is a plain object literal, so a key
\* it does not own is looked up on Object.prototype.
Lookup(sid) ==
    IF sid \in DOMAIN transports THEN transports[sid]
    ELSE IF sid = ProtoKey THEN ProtoMember
    ELSE NoTransport

\* sessionId && transports[sessionId] (the header is absent: undefined)
SessionTransport(sid) == IF sid = NoHeader THEN NoTransport ELSE Lookup(sid)

\* Mutant of ActiveSessions: every session ever created is counted.
ActiveSessionsEverCreated == sessionCounter

\* Object.keys(transports).length
ActiveSessions == Cardinality(DOMAIN transports)

\* transports[id] = transport
Insert(id, tid) ==
    [k \in DOMAIN transports \cup {id} |-> IF k = id THEN tid ELSE transports[k]]

\* delete transports[id]
Remove(id) == [k \in DOMAIN transports \ {id} |-> transports[k]]

\* A handler suspended at its await holds what its continuation reads: the
\* verb, sessionId (DELETE), req.body.id (POST), the transport and res.
Suspended(verb, sid, rpcId, tid, res) ==
    [verb |-> verb, sid |-> sid, rpcId |-> rpcId, tid |-> tid, res |-> res]
IdleSlot == Suspended("idle", NoHeader, Undefined, NoTransport, EmptyRes)
Idle(s) == inflight[s].verb = "idle"

\* Where a handler that suspends is kept: the lowest idle slot (the slots are
\* interchangeable). No slot is idle when MaxInFlight handlers are suspended.
HasFreeSlot == \E s \in Slots : Idle(s)
FreeSlot == CHOOSE s \in Slots : Idle(s) /\ \A u \in Slots : Idle(u) => s <= u
Suspend(h) == [inflight EXCEPT ![FreeSlot] = h]

\* The step a handler has just made: phase "sync" (entry up to the await or
\* the end, req the request that entered) or "resume" (after the await, req
\* the session id the continuation still uses), done when the handler has
\* returned, tid the transport the step worked on,
\* calls what the step called on it, in order.
Step(phase, verb, req, tid, res, done, calls) ==
    [phase |-> phase, verb |-> verb, req |-> req, tid |-> tid, res |-> res,
     done |-> done, calls |-> calls]

Init ==
    /\ transports = <<>>
    /\ sessionCounter = 0
    /\ inflight = [s \in Slots |-> IdleSlot]
    /\ closeCalls = [t \in Transports |-> 0]
    /\ exited = FALSE
    /\ origin \in Origins
    /\ last = Step("init", "none", NoRequest, NoTransport, EmptyRes, TRUE, <<>>)

\* What the awaited transport.handleRequest does: it answers and resolves,
\* it rejects before writing anything, or it rejects after it has begun to
\* write the response.
TransportOutcomes == {"resolve", "reject", "writeThenReject"}
AfterTransport(res, outcome) ==
    IF outcome = "reject" THEN res ELSE TransportWrites(res)
Rejected(outcome) == outcome # "resolve"

\* ---------------------------------------------------------- POST /mcp
\* req.body?.method === "tools/call" && req.body?.params?.name === "echo"
IsEchoCall(body) == body.method = "tools/call" /\ body.name = "echo"

\* req.body.params.arguments?.message
ArgumentsMessage(body) == IF body.hasArgs THEN body.message ELSE Undefined

\* Mutant of EchoMessage: the fallback is left out.
EchoMessageNoFallback(body) == ArgumentsMessage(body)

\* const message = req.body.params.arguments?.message || "No message provided"
EchoMessage(body) == Or(ArgumentsMessage(body), FallbackText)

\* { jsonrpc: "2.0", id: req.body.id, result: { content: [{ type: "text", text: message }] } }
EchoResponse(body) == Payload("result", body.id, EchoMessage(body), 0)

\* { jsonrpc: "2.0", error: { code: -32603, ... }, id: req.body?.id || null }
InternalErrorCode == -32603
InternalError(rpcId) == Payload("rpcError", Or(rpcId, Null), Undefined, InternalErrorCode)

\* { error: "Missing or invalid session" } and { error: "Internal server error" }
MissingSession == Payload("error", Undefined, "s:Missing or invalid session", 0)
ServerError == Payload("error", Undefined, "s:Internal server error", 0)

\* The catch block of POST: if (!res.headersSent) res.status(500).json(...)
PostCatch(res, rpcId) ==
    IF HeadersSent(res) THEN res ELSE Send(res, 500, InternalError(rpcId))

\* The response when the POST handler is entered: the middleware has run, and
\* the handler sets the two CORS headers first.
PostEntry == SetCorsHeaders(CorsMiddleware(EmptyRes, origin), origin)

\* Mutant of PostEcho: the session lookup comes first, and an echo call that
\* names a session which is not registered is refused.
PostEchoAfterLookup(req) ==
    LET unknown == req.sid # NoHeader /\ SessionTransport(req.sid) = NoTransport
        res == IF unknown THEN Send(PostEntry, 400, MissingSession)
               ELSE Send(PostEntry, 200, EchoResponse(req.body))
    IN  /\ ~exited
        /\ IsEchoCall(req.body)
        /\ last' = Step("sync", "POST", req, NoTransport, res, TRUE, <<>>)
        /\ UNCHANGED <<transports, sessionCounter, inflight, closeCalls, exited, origin>>

\* The echo interception, lines 63-82: answered before any session lookup.
PostEcho(req) ==
    /\ ~exited
    /\ IsEchoCall(req.body)
    /\ last' = Step("sync", "POST", req, NoTransport,
                    Send(PostEntry, 200, EchoResponse(req.body)), TRUE, <<>>)
    /\ UNCHANGED <<transports, sessionCounter, inflight, closeCalls, exited, origin>>

\* Mutant of PostExisting: the id of the existing session is set on the
\* response again.
PostExistingSetsHeader(req) ==
    LET tid == SessionTransport(req.sid)
        res == SetSessionHeader(PostEntry, req.sid)
    IN  /\ ~exited
        /\ ~IsEchoCall(req.body)
        /\ tid # NoTransport
        /\ IF tid = ProtoMember
           THEN /\ last' = Step("sync", "POST", req, NoTransport,
                                PostCatch(PostEntry, req.body.id), TRUE, <<>>)
                /\ UNCHANGED inflight
           ELSE /\ HasFreeSlot
                /\ inflight' = Suspend(
                       Suspended("POST", NoHeader, req.body.id, tid, res))
                /\ last' = Step("sync", "POST", req, tid, res, FALSE,
                                <<"handleRequest">>)
        /\ UNCHANGED <<transports, sessionCounter, closeCalls, exited, origin>>

\* if (sessionId && transports[sessionId]) transport = transports[sessionId]
\* and then transport.handleRequest(req, res, req.body). A member inherited
\* from Object.prototype has no handleRequest: the call throws a TypeError
\* before anything is awaited, and the catch block answers.
PostExisting(req) ==
    LET tid == SessionTransport(req.sid)
    IN  /\ ~exited
        /\ ~IsEchoCall(req.body)
        /\ tid # NoTransport
        /\ IF tid = ProtoMember
           THEN /\ last' = Step("sync", "POST", req, NoTransport,
                                PostCatch(PostEntry, req.body.id), TRUE, <<>>)
                /\ UNCHANGED inflight
           ELSE /\ HasFreeSlot
                /\ inflight' = Suspend(
                       Suspended("POST", NoHeader, req.body.id, tid, PostEntry))
                /\ last' = Step("sync", "POST", req, tid, PostEntry, FALSE,
                                <<"handleRequest">>)
        /\ UNCHANGED <<transports, sessionCounter, closeCalls, exited, origin>>

\* Mutant of PostCreate: the counter is read but not advanced.
PostCreateStaleCounter(req, now) ==
    LET newSessionId == SessionIdString(sessionCounter + 1, now)
        tid == sessionCounter + 1
        res == SetSessionHeader(PostEntry, newSessionId)
    IN  /\ ~exited
        /\ ~IsEchoCall(req.body)
        /\ SessionTransport(req.sid) = NoTransport
        /\ HasFreeSlot
        /\ transports' = Insert(newSessionId, tid)
        /\ inflight' = Suspend(
               Suspended("POST", NoHeader, req.body.id, tid, res))
        /\ last' = Step("sync", "POST", req, tid, res, FALSE,
                        <<"new", "insert", "handleRequest">>)
        /\ UNCHANGED <<sessionCounter, closeCalls, exited, origin>>

\* else: const newSessionId = `session-${++sessionCounter}-${Date.now()}`;
\* transport = new StreamableHTTPServerTransport(...);
\* transports[newSessionId] = transport;
\* res.setHeader("mcp-session-id", newSessionId);
\* and then await transport.handleRequest(req, res, req.body).
PostCreate(req, now) ==
    LET counter == sessionCounter + 1
        newSessionId == SessionIdString(counter, now)
        tid == counter
        res == SetSessionHeader(PostEntry, newSessionId)
    IN  /\ ~exited
        /\ ~IsEchoCall(req.body)
        /\ SessionTransport(req.sid) = NoTransport
        /\ sessionCounter < MaxSessions
        /\ HasFreeSlot
        /\ sessionCounter' = counter
        /\ transports' = Insert(newSessionId, tid)
        /\ inflight' = Suspend(
               Suspended("POST", NoHeader, req.body.id, tid, res))
        /\ last' = Step("sync", "POST", req, tid, res, FALSE,
                        <<"new", "insert", "handleRequest">>)
        /\ UNCHANGED <<closeCalls, exited, origin>>

\* app.post("/mcp", ...) from its entry to its await or its end.
PostMcp(req) ==
    \/ PostEcho(req)
    \/ PostExisting(req)
    \/ \E now \in Clock : PostCreate(req, now)

\* The POST handler after the await: nothing on success, the catch block on
\* a rejection.
PostResume(s, outcome) ==
    LET h == inflight[s]
        sent == AfterTransport(h.res, outcome)
        res == IF Rejected(outcome) THEN PostCatch(sent, h.rpcId) ELSE sent
    IN  /\ ~exited
        /\ h.verb = "POST"
        /\ inflight' = [inflight EXCEPT ![s] = IdleSlot]
        /\ last' = Step("resume", "POST", NoRequest, h.tid, res, TRUE, <<>>)
        /\ UNCHANGED <<transports, sessionCounter, closeCalls, exited, origin>>

\* ----------------------------------------------------------- GET /mcp
\* The response when the GET handler is entered: only the middleware has run.
GetEntry == CorsMiddleware(EmptyRes, origin)

\* The catch block of GET and of DELETE: res.status(500).json(...)
PlainCatch(res) == Send(res, 500, ServerError)

\* if (!sessionId || !transports[sessionId]) return res.status(400).json(...)
\* else the five setHeader calls and await transports[sessionId].handleRequest
GetMcp(req) ==
    LET tid == SessionTransport(req.sid)
        res == SetCorsHeaders(GetEntry, origin)
    IN  /\ ~exited
        /\ IF tid = NoTransport
           THEN /\ last' = Step("sync", "GET", req, NoTransport,
                                Send(GetEntry, 400, MissingSession), TRUE, <<>>)
                /\ UNCHANGED inflight
           ELSE IF tid = ProtoMember
           THEN /\ last' = Step("sync", "GET", req, NoTransport, PlainCatch(res),
                                TRUE, <<>>)
                /\ UNCHANGED inflight
           ELSE /\ HasFreeSlot
                /\ inflight' = Suspend(
                       Suspended("GET", NoHeader, Undefined, tid, res))
                /\ last' = Step("sync", "GET", req, tid, res, FALSE, <<"handleRequest">>)
        /\ UNCHANGED <<transports, sessionCounter, closeCalls, exited, origin>>

\* The GET handler after the await: the catch block writes unconditionally.
GetResume(s, outcome) ==
    LET h == inflight[s]
        sent == AfterTransport(h.res, outcome)
        res == IF Rejected(outcome) THEN PlainCatch(sent) ELSE sent
    IN  /\ ~exited
        /\ h.verb = "GET"
        /\ inflight' = [inflight EXCEPT ![s] = IdleSlot]
        /\ last' = Step("resume", "GET", NoRequest, h.tid, res, TRUE, <<>>)
        /\ UNCHANGED <<transports, sessionCounter, closeCalls, exited, origin>>

\* -------------------------------------------------------- DELETE /mcp
\* The response when the DELETE handler has set its two CORS headers.
DeleteEntry == SetCorsHeaders(CorsMiddleware(EmptyRes, origin), origin)

\* const transport = sessionId && transports[sessionId];
\* if (!transport) return res.status(400).json(...);
\* await transport.handleRequest(req, res);
DeleteMcp(req) ==
    LET tid == SessionTransport(req.sid)
    IN  /\ ~exited
        /\ IF tid = NoTransport
           THEN /\ last' = Step("sync", "DELETE", req, NoTransport,
                                Send(DeleteEntry, 400, MissingSession), TRUE, <<>>)
                /\ UNCHANGED inflight
           ELSE IF tid = ProtoMember
           THEN /\ last' = Step("sync", "DELETE", req, NoTransport,
                                PlainCatch(DeleteEntry), TRUE, <<>>)
                /\ UNCHANGED inflight
           ELSE /\ HasFreeSlot
                /\ inflight' = Suspend(
                       Suspended("DELETE", req.sid, Undefined, tid, DeleteEntry))
                /\ last' = Step("sync", "DELETE", req, tid, DeleteEntry, FALSE,
                                <<"handleRequest">>)
        /\ UNCHANGED <<transports, sessionCounter, closeCalls, exited, origin>>

\* The DELETE handler after the await: transport.close?.() and
\* delete transports[sessionId] when handleRequest resolved, the catch block
\* (which writes unconditionally) when it rejected.
DeleteResume(s, outcome) ==
    LET h == inflight[s]
        sent == AfterTransport(h.res, outcome)
    IN  /\ ~exited
        /\ h.verb = "DELETE"
        /\ inflight' = [inflight EXCEPT ![s] = IdleSlot]
        /\ IF Rejected(outcome)
           THEN /\ last' = Step("resume", "DELETE", Request(h.sid, NoBody), h.tid,
                                PlainCatch(sent),
                                TRUE, <<>>)
                /\ UNCHANGED <<transports, closeCalls>>
           ELSE /\ closeCalls' = [closeCalls EXCEPT ![h.tid] = @ + 1]
                /\ transports' = Remove(h.sid)
                /\ last' = Step("resume", "DELETE", Request(h.sid, NoBody), h.tid,
                                sent, TRUE, <<"close", "delete">>)
        /\ UNCHANGED <<sessionCounter, exited, origin>>

\* ------------------------------------------------- the other handlers
\* app.get("/health"): res.json({ status, activeSessions, timestamp })
Health ==
    /\ ~exited
    /\ last' = Step("sync", "HEALTH", NoRequest, NoTransport,
                    Send(CorsMiddleware(EmptyRes, origin), 200,
                         Payload("health", Undefined, "s:healthy", ActiveSessions)),
                    TRUE, <<>>)
    /\ UNCHANGED <<transports, sessionCounter, inflight, closeCalls, exited, origin>>

\* OPTIONS /mcp: app.use(cors(corsOptions)) is registered first, and the
\* middleware ends a preflight itself (204, its own headers) without calling
\* the next handler, so the app.options("/mcp") handler never runs.
Options ==
    /\ ~exited
    /\ last' = Step("sync", "OPTIONS", NoRequest, NoTransport,
                    Send(CorsMiddleware(EmptyRes, origin), 204, NoPayload),
                    TRUE, <<>>)
    /\ UNCHANGED <<transports, sessionCounter, inflight, closeCalls, exited, origin>>

\* A transport signals closure on its own (the client went away). The code
\* of index.ts assigns no transport.onclose: nothing of the state changes.
TransportCloses(tid) ==
    /\ ~exited
    /\ tid \in 1..sessionCounter
    /\ last' = Step("onclose", "none", NoRequest, tid, EmptyRes, TRUE, <<>>)
    /\ UNCHANGED <<transports, sessionCounter, inflight, closeCalls, exited, origin>>

\* Mutant of Shutdown: the process exits without closing anything.
ShutdownWithoutClose ==
    /\ ~exited
    /\ exited' = TRUE
    /\ last' = Step("shutdown", "none", NoRequest, NoTransport, EmptyRes, TRUE,
                    <<>>)
    /\ UNCHANGED <<transports, sessionCounter, inflight, closeCalls, origin>>

\* process.on(signal): Object.values(transports).forEach((t) => t.close?.());
\* process.exit(0). Nothing runs after the exit.
Shutdown ==
    /\ ~exited
    /\ closeCalls' = [t \in Transports |->
           IF \E id \in DOMAIN transports : transports[id] = t
           THEN closeCalls[t] + 1 ELSE closeCalls[t]]
    /\ exited' = TRUE
    /\ last' = Step("shutdown", "none", NoRequest, NoTransport, EmptyRes, TRUE, <<"close">>)
    /\ UNCHANGED <<transports, sessionCounter, inflight, origin>>

Next ==
    \/ \E req \in PostRequests : PostEcho(req)
    \/ \E s \in Slots, req \in PostRequests : PostExisting(req)
    \/ \E s \in Slots, req \in PostRequests, now \in Clock : PostCreate(req, now)
    \/ \E s \in Slots, o \in TransportOutcomes : PostResume(s, o)
    \/ \E s \in Slots, req \in BodilessRequests : GetMcp(req)
    \/ \E s \in Slots, o \in TransportOutcomes : GetResume(s, o)
    \/ \E s \in Slots, req \in BodilessRequests : DeleteMcp(req)
    \/ \E s \in Slots, o \in TransportOutcomes : DeleteResume(s, o)
    \/ Health
    \/ Options
    \/ \E tid \in Transports : TransportCloses(tid)
    \/ Shutdown

Spec == Init /\ [][Next]_vars


\* ------------------------------------------------------------- the claims
SyncStep(verb) == last.phase = "sync" /\ last.verb = verb
Registered(sid) == sid \in DOMAIN transports

\* C1 as stated: a POST that carries no mcp-session-id header registers
\* exactly one new session and sets exactly one mcp-session-id response
\* header, whatever its body is.
C1_NoHeaderPostCreatesSession ==
    [][(last'.phase = "sync" /\ last'.verb = "POST" /\ last'.req.sid = NoHeader)
        => /\ Cardinality(DOMAIN transports') = Cardinality(DOMAIN transports) + 1
           /\ Len(last'.res.sidHdr) = 1]_vars

\* C1 amended: a POST that carries no mcp-session-id header and is not an
\* echo tool call registers exactly one new session, under the id it sets as
\* the one mcp-session-id response header; an echo call registers nothing and
\* sets no such header.
C1_NonEchoPostCreatesSession ==
    [][(last'.phase = "sync" /\ last'.verb = "POST" /\ last'.req.sid = NoHeader)
        => IF IsEchoCall(last'.req.body)
           THEN /\ transports' = transports
                /\ last'.res.sidHdr = <<>>
           ELSE /\ Cardinality(DOMAIN transports') = Cardinality(DOMAIN transports) + 1
                /\ Len(last'.res.sidHdr) = 1
                /\ DOMAIN transports' = DOMAIN transports \cup {last'.res.sidHdr[1]}
                /\ \A id \in DOMAIN transports : transports'[id] = transports[id]]_vars

C1_Witness ==
    /\ SyncStep("POST")
    /\ last.req.sid = NoHeader
    /\ last.req.body.method = "initialize"
    /\ Len(last.res.sidHdr) = 1
    /\ Registered(last.res.sidHdr[1])
    /\ ActiveSessions = 2

\* C2 as stated: a POST whose mcp-session-id header names a registered
\* session is routed into that session's transport, and neither step of its
\* handler changes the registry or the session counter.
C2_RegisteredPostIsRouted ==
    [][/\ (last'.phase = "sync" /\ last'.verb = "POST" /\ Registered(last'.req.sid))
          => /\ last'.tid = transports[last'.req.sid]
             /\ last'.calls = <<"handleRequest">>
             /\ UNCHANGED <<transports, sessionCounter>>
       /\ (last'.phase = "resume" /\ last'.verb = "POST")
          => UNCHANGED <<transports, sessionCounter>>]_vars

\* C2 amended: a POST whose mcp-session-id header names a registered session
\* creates no session (neither step of its handler changes the registry or
\* the session counter), and unless it is an echo tool call, which is
\* answered without any transport, it is routed into that session's
\* transport.
C2_RegisteredPostCreatesNothing ==
    [][/\ (last'.phase = "sync" /\ last'.verb = "POST" /\ Registered(last'.req.sid))
          => /\ UNCHANGED <<transports, sessionCounter>>
             /\ IF IsEchoCall(last'.req.body)
                THEN last'.tid = NoTransport /\ last'.calls = <<>>
                ELSE /\ last'.tid = transports[last'.req.sid]
                     /\ last'.calls = <<"handleRequest">>
       /\ (last'.phase = "resume" /\ last'.verb = "POST")
          => UNCHANGED <<transports, sessionCounter>>]_vars

C2_Witness ==
    /\ SyncStep("POST")
    /\ Registered(last.req.sid)
    /\ ~IsEchoCall(last.req.body)
    /\ last.tid = transports[last.req.sid]
    /\ sessionCounter = 1

\* C3 as stated: an echo call whose arguments.message is a string m, the
\* empty string included, gets a success response whose text is exactly m.
C3_EchoReturnsMessage ==
    (/\ SyncStep("POST")
     /\ IsEchoCall(last.req.body)
     /\ last.req.body.hasArgs
     /\ last.req.body.message \in Strings)
    => /\ last.res.status = 200
       /\ last.res.body.kind = "result"
       /\ last.res.body.text = last.req.body.message

\* C4: an echo call with no message field (arguments without message, or no
\* arguments) gets a success response whose text is "No message provided",
\* written once; it is never an error response and never a 500.
C4_EchoFallback ==
    (/\ SyncStep("POST")
     /\ IsEchoCall(last.req.body)
     /\ (~last.req.body.hasArgs \/ last.req.body.message = Undefined))
    => /\ last.done
       /\ last.res.status = 200
       /\ last.res.writes = 1
       /\ last.res.body.kind = "result"
       /\ last.res.body.text = FallbackText

C4_Witness ==
    /\ SyncStep("POST")
    /\ IsEchoCall(last.req.body)
    /\ ~last.req.body.hasArgs
    /\ last.res.body.text = FallbackText
    /\ ActiveSessions = 1

\* C5 as stated: a GET or DELETE whose mcp-session-id header is absent or
\* names no registered session is answered with 400, calls no transport and
\* leaves the registry and the session counter unchanged.
C5_UnregisteredGets400 ==
    [][(/\ last'.phase = "sync"
        /\ last'.verb \in {"GET", "DELETE"}
        /\ ~Registered(last'.req.sid))
        => /\ last'.res.status = 400
           /\ last'.calls = <<>>
           /\ UNCHANGED <<transports, sessionCounter>>]_vars

\* C6 as stated: once the DELETE handler of a registered session id has run,
\* a later GET or DELETE with that id (here: the next request) is answered
\* with 400, also when routing the DELETE into the transport threw.
C6_AfterDelete400 ==
    [][(/\ last.phase = "resume" /\ last.verb = "DELETE"
        /\ last'.phase = "sync" /\ last'.verb \in {"GET", "DELETE"}
        /\ last'.req.sid = last.req.sid)
        => last'.res.status = 400]_vars

\* C7 as stated: when the DELETE handler of a registered session id finishes,
\* it has called the transport's close hook once and then removed the id: the
\* id is no longer registered and the transport has been closed.
C7_DeleteClosesAndRemoves ==
    (last.phase = "resume" /\ last.verb = "DELETE")
    => /\ last.calls = <<"close", "delete">>
       /\ closeCalls[last.tid] >= 1
       /\ \A id \in DOMAIN transports : transports[id] # last.tid

\* C8 as stated: when a transport signals closure on its own, its session is
\* removed from the registry.
C8_OwnClosureRemoves ==
    last.phase = "onclose"
    => \A id \in DOMAIN transports : transports[id] # last.tid

\* C9 as stated: no handler writes a status/body a second time once any part
\* of the response has been sent.
C9_NoSecondWrite == last.res.writes <= 1

\* C10 as stated: every response of /mcp to a request that carries an Origin
\* header has Access-Control-Allow-Origin echoing that origin and
\* Access-Control-Allow-Credentials set.
C10_CorsOnEveryResponse ==
    (/\ origin # NoOrigin
     /\ last.verb \in {"POST", "GET", "DELETE", "OPTIONS"}
     /\ HeadersSent(last.res))
    => last.res.acao = origin /\ last.res.acac


\* The step issued a session id: it set the mcp-session-id response header.
IssuedId == last'.phase = "sync" /\ last'.res.sidHdr # <<>>

\* C11: session ids are never issued twice. The counter never goes back, and
\* an id that is issued carries the counter value reached by advancing the
\* counter by one, so it differs from every id issued before (deleted or
\* not); it is not in the registry when it is inserted, and the insertion
\* keeps every entry there is.
C11_IdsNeverIssuedTwice ==
    [][/\ sessionCounter' >= sessionCounter
       /\ \A id \in DOMAIN transports' : id.n <= sessionCounter'
       /\ IssuedId
          => LET id == last'.res.sidHdr[1]
             IN  /\ sessionCounter' = sessionCounter + 1
                 /\ id.n = sessionCounter'
                 /\ id \notin DOMAIN transports
                 /\ id \in DOMAIN transports'
                 /\ \A old \in DOMAIN transports :
                       /\ old \in DOMAIN transports'
                       /\ transports'[old] = transports[old]
                       /\ old.n < id.n]_vars

C11_Witness ==
    /\ SyncStep("POST")
    /\ last.res.sidHdr # <<>>
    /\ sessionCounter = 2
    /\ ActiveSessions = 1
    /\ last.res.sidHdr[1].n = 2

\* C12: the mcp-session-id response header is set only by the step that
\* creates a session (a POST that is no echo call and names no registered
\* session), once, with the id under which the new transport was registered;
\* no other step of any handler sets it.
C12_HeaderOnlyOnCreation ==
    [][/\ Len(last'.res.sidHdr) <= 1
       /\ last'.phase = "sync"
          => /\ last'.res.sidHdr # <<>> <=> DOMAIN transports' # DOMAIN transports
             /\ last'.res.sidHdr # <<>>
                => /\ last'.verb = "POST"
                   /\ ~IsEchoCall(last'.req.body)
                   /\ ~Registered(last'.req.sid)
                   /\ DOMAIN transports' \ DOMAIN transports = {last'.res.sidHdr[1]}
                   /\ transports'[last'.res.sidHdr[1]] = last'.tid
       /\ last'.phase = "resume"
          => \E s \in Slots :
                /\ inflight[s].verb = last'.verb
                /\ inflight'[s] = IdleSlot
                /\ last'.res.sidHdr = inflight[s].res.sidHdr
                /\ last'.verb # "POST" => last'.res.sidHdr = <<>>
       /\ last'.phase \notin {"sync", "resume"} => last'.res.sidHdr = <<>>]_vars

C12_Witness ==
    /\ SyncStep("POST")
    /\ last.req.sid \in IdSpace
    /\ ~Registered(last.req.sid)
    /\ last.calls = <<"new", "insert", "handleRequest">>
    /\ Len(last.res.sidHdr) = 1
    /\ transports[last.res.sidHdr[1]] = last.tid

\* C13: GET /health answers 200 with activeSessions equal to the number of
\* sessions created (the counter) less the number of sessions a DELETE has
\* closed and removed.
C13_HealthCountsSessions ==
    last.verb = "HEALTH"
    => /\ last.res.status = 200
       /\ last.res.writes = 1
       /\ last.res.body.kind = "health"
       /\ last.res.body.n =
             sessionCounter - Cardinality({t \in Transports : closeCalls[t] > 0})

C13_Witness ==
    /\ last.verb = "HEALTH"
    /\ last.res.body.n = 1
    /\ sessionCounter = 2

\* C14: the step of the termination signal calls the close hook of every
\* transport registered at that moment, once, and of no other transport,
\* and the process has exited after it.
C14_ShutdownClosesAll ==
    [][(~exited /\ exited')
        => \A t \in Transports :
              closeCalls'[t] =
                 IF \E id \in DOMAIN transports : transports[id] = t
                 THEN closeCalls[t] + 1 ELSE closeCalls[t]]_vars

C14_Witness ==
    /\ exited
    /\ sessionCounter = 2
    /\ \E id \in DOMAIN transports : transports[id] = 2 /\ closeCalls[2] = 1
    /\ \A id \in DOMAIN transports : transports[id] # 1
    /\ closeCalls[1] = 1

\* C15 as stated: every JSON-RPC body the POST handler itself writes (the
\* echo result, the -32603 error envelope) carries the id of the request it
\* answers, for every request id.
C15_ResponseIdMatches ==
    [][(/\ last'.verb = "POST"
        /\ last'.res.body.kind \in {"result", "rpcError"})
       => IF last'.phase = "sync"
          THEN last'.res.body.id = last'.req.body.id
          ELSE \E s \in Slots :
                  /\ inflight[s].verb = "POST"
                  /\ inflight'[s] = IdleSlot
                  /\ last'.res.body.id = inflight[s].rpcId]_vars

\* A POST suspended at its await that created a session on its way there.
Creating(h) == h.verb = "POST" /\ h.res.sidHdr # <<>>

\* C16: a POST that creates a session while another creating POST is
\* suspended at its await gets an id and a transport of its own, is
\* registered under that id, and leaves the other POST's registry entry and
\* its suspended handler as they were; and as long as no DELETE or shutdown
\* has closed its transport, the session of a suspended creating POST is
\* registered under the id that POST issued.
C16_ConcurrentCreationsDistinct ==
    [][/\ \A s \in Slots :
             (Creating(inflight'[s]) /\ closeCalls'[inflight'[s].tid] = 0)
             => /\ inflight'[s].res.sidHdr[1] \in DOMAIN transports'
                /\ transports'[inflight'[s].res.sidHdr[1]] = inflight'[s].tid
       /\ IssuedId
          => \A u \in Slots :
                Creating(inflight[u])
                => LET id == last'.res.sidHdr[1]
                       other == inflight[u].res.sidHdr[1]
                   IN  /\ id # other
                       /\ last'.tid # inflight[u].tid
                       /\ id \in DOMAIN transports'
                       /\ transports'[id] = last'.tid
                       /\ inflight'[u] = inflight[u]
                       /\ other \in DOMAIN transports
                          => /\ other \in DOMAIN transports'
                             /\ transports'[other] = transports[other]]_vars

C16_Witness ==
    /\ SyncStep("POST")
    /\ last.res.sidHdr # <<>>
    /\ \A s \in Slots : Creating(inflight[s])
    /\ \E s, u \in Slots :
          /\ inflight[s].res.sidHdr[1] # inflight[u].res.sidHdr[1]
          /\ transports[inflight[s].res.sidHdr[1]] = 1
          /\ transports[inflight[u].res.sidHdr[1]] = 2
    /\ ActiveSessions = 2

\* C17 as stated: a POST that is no echo call and whose mcp-session-id
\* header names an id that is not registered creates a session under an id
\* taken from the advanced counter, and an id the counter has already passed
\* (a deleted session's id) does not come back into the registry.
C17_UnregisteredPostCreates ==
    [][(/\ last'.phase = "sync"
        /\ last'.verb = "POST"
        /\ ~IsEchoCall(last'.req.body)
        /\ last'.req.sid # NoHeader
        /\ ~Registered(last'.req.sid))
       => /\ sessionCounter' = sessionCounter + 1
          /\ \E id \in DOMAIN transports' \ DOMAIN transports :
                /\ id.n = sessionCounter'
                /\ DOMAIN transports' = DOMAIN transports \cup {id}
                /\ last'.res.sidHdr = <<id>>
          /\ \A id \in DOMAIN transports' : id.n <= sessionCounter => id \in DOMAIN transports]_vars

\* C18 as stated: while the process runs (every close so far was called by
\* the DELETE handler), no transport has been closed more than once.
C18_DeleteClosesAtMostOnce ==
    ~exited => \A t \in Transports : closeCalls[t] <= 1

\* C19: a POST that is an echo call is answered at once with a response that
\* is determined by its body and the Origin header alone (status 200, the
\* request's id, the message or the fallback text, no mcp-session-id
\* header), whatever its mcp-session-id header and the registry are, and the
\* registry, the counter, the suspended handlers and the transports are left
\* as they were.
C19_EchoIgnoresSession ==
    [][(/\ last'.phase = "sync"
        /\ last'.verb = "POST"
        /\ IsEchoCall(last'.req.body))
       => LET body == last'.req.body
              text == IF body.hasArgs /\ body.message \notin {Undefined, "s:"}
                      THEN body.message ELSE FallbackText
          IN  /\ last'.res =
                    [status |-> 200, writes |-> 1, sidHdr |-> <<>>,
                     acao |-> IF origin = NoOrigin THEN "s:*" ELSE origin,
                     acac |-> TRUE,
                     body |-> [kind |-> "result", id |-> body.id,
                               text |-> text, n |-> 0]]
              /\ last'.done
              /\ last'.calls = <<>>
              /\ UNCHANGED <<transports, sessionCounter, inflight, closeCalls>>]_vars

C19_Witness ==
    /\ SyncStep("POST")
    /\ IsEchoCall(last.req.body)
    /\ last.req.sid \in IdSpace
    /\ last.req.sid.n <= sessionCounter
    /\ ~Registered(last.req.sid)
    /\ ActiveSessions = 1
    /\ last.res.status = 200
    /\ last.res.body.text = "s:hi"

=============================================================================
